---- MODULE Spec2Model ----
(***************************************************************************)
(* Model of healthbook_backend: src/youtube.ts (duration parser, channel   *)
(* resolver, video fetcher, aggregation cache, auto refresh) and the       *)
(* GET /api/youtube/videos handler and start-up of src/index.ts.           *)
(*                                                                         *)
(* Text is a sequence of one-character strings.  An optional value (null / *)
(* undefined in the source) is a sequence of length 0 or 1.  Time is       *)
(* counted in minutes (CACHE_TTL is "5 minutes").                          *)
(***************************************************************************)
EXTENDS Integers, Sequences, FiniteSets, TLC

\* ------------------------------------------------------------------ bounds

\* Longest batch of items the remote video lookup returns.
MaxVideos == 4
\* Last minute of the server's clock: the interval timer comes due twice.
MaxTime == 11
\* Last minute of the clock when fetchYouTubeVideosAuto is called freely.
MaxApiTime == 7
\* Invocations started by callers other than the interval timer.
MaxCalls == 2

\* Largest hour, minute or second count of a well-formed duration text.
MaxComponent == 13
\* Longest arbitrary text given to parseDuration.
MaxText == 4

\* ------------------------------------------------------- program constants

\* youtube.ts:27  const CACHE_TTL = 5 * 60 * 1000 (here in minutes)
CACHE_TTL == 5
\* youtube.ts:159-160  the short/long threshold in seconds
ShortMaxSeconds == 60
\* youtube.ts:163-164  slice(0, 3)
ListLimit == 3
\* index.ts:117  apiKey.length < 20
MinKeyLength == 20

\* -------------------------------------------------------------------- text

None == <<>>
Some(x) == <<x>>
IsSome(o) == Len(o) = 1
Get(o) == o[1]

Digits == <<"0", "1", "2", "3", "4", "5", "6", "7", "8", "9">>
IsDigit(c) == \E d \in 1..10 : Digits[d] = c
DigitVal(c) == (CHOOSE d \in 1..10 : Digits[d] = c) - 1

\* Mutant: \d instead of \d+, one digit at most is taken.
DigitsEnd_OneDigit(s, i) ==
    IF i <= Len(s) /\ IsDigit(s[i]) THEN i ELSE i - 1

\* Index of the last character of the longest run of digits starting at i
\* (i - 1 when s[i] is no digit): the greedy \d+ of the pattern.
RECURSIVE DigitsEnd(_, _)
DigitsEnd(s, i) ==
    IF i <= Len(s) /\ IsDigit(s[i]) THEN DigitsEnd(s, i + 1) ELSE i - 1

\* parseInt(text, 10) of the digits s[i..j].
RECURSIVE parseInt(_, _, _)
parseInt(s, i, j) ==
    IF j < i THEN 0 ELSE parseInt(s, i, j - 1) * 10 + DigitVal(s[j])

\* One optional group (?:(\d+)U)? tried at position i: the captured number
\* (match[k] || "0") and the position after the group.
Group(s, i, unit) ==
    LET j == DigitsEnd(s, i) IN
    IF j >= i /\ j + 1 <= Len(s) /\ s[j + 1] = unit
    THEN [n |-> parseInt(s, i, j), next |-> j + 2]
    ELSE [n |-> 0, next |-> i]

\* Position of the leftmost "PT" in s, 0 when there is none: the pattern is
\* not anchored and everything after PT is optional.
IndexOfPT(s) ==
    LET hits == {i \in 1..(Len(s) - 1) : s[i] = "P" /\ s[i + 1] = "T"} IN
    IF hits = {} THEN 0 ELSE CHOOSE i \in hits : \A k \in hits : i <= k

\* youtube.ts:54-67.  The argument is an optional text: item.contentDetails
\* .duration may be undefined, duration.match then throws inside the try and
\* the catch returns 0.
parseDuration(duration) ==
    IF ~IsSome(duration) THEN 0
    ELSE LET s == Get(duration)
             i == IndexOfPT(s)
         IN  IF i = 0 THEN 0
             ELSE LET h == Group(s, i + 2, "H")
                      m == Group(s, h.next, "M")
                      sec == Group(s, m.next, "S")
                  IN  h.n * 3600 + m.n * 60 + sec.n

\* ------------------------------------------------------- the video pipeline

\* new Date(publishedAt).getTime(): publication instants are modelled by
\* their epoch value.
getTime(publishedAt) == publishedAt

\* youtube.ts:142-150  one remote item to a YouTubeVideo
toVideo(item) ==
    [videoId |-> item.id,
     publishedAt |-> item.publishedAt,
     durationInSeconds |-> parseDuration(item.duration)]

mapItems(items) == [i \in 1..Len(items) |-> toVideo(items[i])]

\* Mutant: an element is inserted before the elements of equal timestamp.
RECURSIVE insertByLatest_Unstable(_, _)
insertByLatest_Unstable(sorted, v) ==
    IF sorted = <<>> THEN <<v>>
    ELSE IF v.publishedAt >= Head(sorted).publishedAt
         THEN <<v>> \o sorted
         ELSE <<Head(sorted)>> \o insertByLatest_Unstable(Tail(sorted), v)

\* Insert v behind every element that does not compare after it: a stable
\* insertion under the comparator getTime(b) - getTime(a).
RECURSIVE insertByLatest(_, _)
insertByLatest(sorted, v) ==
    IF sorted = <<>> THEN <<v>>
    ELSE IF getTime(v.publishedAt) - getTime(Head(sorted).publishedAt) > 0
         THEN <<v>> \o sorted
         ELSE <<Head(sorted)>> \o insertByLatest(Tail(sorted), v)

\* youtube.ts:153-157  videos.sort(...), stable, latest first
RECURSIVE sortByLatest(_)
sortByLatest(videos) ==
    IF videos = <<>> THEN <<>>
    ELSE insertByLatest(sortByLatest(SubSeq(videos, 1, Len(videos) - 1)),
                        videos[Len(videos)])

isLong(v) == v.durationInSeconds > ShortMaxSeconds
\* Mutant: a video of exactly 60 seconds is no short.
isShort_Below(v) == v.durationInSeconds < ShortMaxSeconds
isShort(v) == v.durationInSeconds <= ShortMaxSeconds

\* youtube.ts:159  videos.filter(v => v.durationInSeconds > 60)
filterLong(videos) == SelectSeq(videos, isLong)
\* youtube.ts:160  videos.filter(v => v.durationInSeconds <= 60)
filterShorts(videos) == SelectSeq(videos, isShort)

slice(s, n) == SubSeq(s, 1, IF Len(s) < n THEN Len(s) ELSE n)

\* Mutant: the hero is the oldest long video.
selectHero_Oldest(longVideos) ==
    IF Len(longVideos) > 0 THEN Some(longVideos[Len(longVideos)]) ELSE None

\* youtube.ts:162  longVideos.length > 0 ? longVideos[0] : null
selectHero(longVideos) ==
    IF Len(longVideos) > 0 THEN Some(longVideos[1]) ELSE None

\* youtube.ts:162-170
buildResult(longVideos, shorts) ==
    [heroVideo |-> selectHero(longVideos),
     longVideos |-> slice(longVideos, ListLimit),
     shorts |-> slice(shorts, ListLimit)]

\* youtube.ts:142-170  everything after the last remote call
processItems(items) ==
    LET videos == sortByLatest(mapItems(items)) IN
    buildResult(filterLong(videos), filterShorts(videos))

\* ------------------------------------------------------------------- state

VARIABLES
    env,             \* process.env: YOUTUBE_API_KEY (its length), YOUTUBE_CHANNEL_HANDLE
    now,             \* Date.now(), in minutes
    cachedVideos,    \* youtube.ts:23  optional ProcessedVideos
    lastFetchTime,   \* youtube.ts:24
    channelIdCache,  \* youtube.ts:73  Map from normalized handle to channel id
    timer,           \* the setInterval of youtube.ts:202: optional due time
    calls,           \* the invocations in flight, one slot per caller
    seq,             \* number of invocations started so far
    resolverLog,     \* direct resolutions per normalized handle: begun, searches issued, ...
    lastTick,        \* how the latest interval callback ended, the slot it found, its number
    storedBy,        \* the invocation whose result the slot holds (n), its store (at)
    ev,              \* what the last step did, with the slot it found
    pipe,            \* the stages of youtube.ts:142-170 applied one by one
    parse            \* one call of parseDuration: its text, then its result

vars == <<env, now, cachedVideos, lastFetchTime, channelIdCache, timer, calls,
          seq, resolverLog, lastTick, storedBy, ev, pipe, parse>>

ReqProcs == {"r1"}
AutoProcs == {"a1"}
WarmProcs == {"w1"}
TickProcs == {"t1"}
ResolveProcs == {"v1", "v2"}
Procs == ReqProcs \cup AutoProcs \cup WarmProcs \cup TickProcs \cup ResolveProcs
\* The callers that catch and log: the interval callback (youtube.ts:206-208)
\* and the warm-up's .catch(console.error) (youtube.ts:200).
LoggingProcs == TickProcs \cup WarmProcs

\* ----------------------------------------------------------------- handles

AtF == <<"@", "f">>
LowerF == <<"f">>
UpperF == <<"F">>
FAt == <<"f", "@">>
AtAtF == <<"@", "@", "f">>
LowerG == <<"g">>
UCx == <<"U", "C", "x">>

\* Handles given to the resolver directly.
Handles == {AtF, LowerF, UpperF, FAt, AtAtF, LowerG}
\* Values of YOUTUBE_CHANNEL_HANDLE.
EnvHandles == {AtF, UCx}
\* The handle of the server's .env (index.ts:29 names a handle).
ServerHandles == {AtF}
\* Lengths of YOUTUBE_API_KEY.
EnvKeyLengths == {MinKeyLength - 1, MinKeyLength}

ChannelIds == {<<"U", "C", "1">>}

toUpperCase(c) ==
    CASE c = "f" -> "F"
      [] c = "g" -> "G"
      [] c = "x" -> "X"
      [] OTHER -> c

\* String.prototype.replace("@", ""): drops the first "@" only.
RECURSIVE replaceAt(_)
replaceAt(h) ==
    IF h = <<>> THEN <<>>
    ELSE IF Head(h) = "@" THEN Tail(h)
         ELSE <<Head(h)>> \o replaceAt(Tail(h))

\* youtube.ts:83
normalize(channelHandle) ==
    LET r == replaceAt(channelHandle) IN [i \in 1..Len(r) |-> toUpperCase(r[i])]

\* Mutant: no input is taken for a channel identifier.
startsWithUC_Never(h) == FALSE

\* youtube.ts:115  channelIdOrHandle.startsWith("UC")
startsWithUC(h) == Len(h) >= 2 /\ h[1] = "U" /\ h[2] = "C"

NormKeys == {normalize(h) : h \in Handles \cup EnvHandles}

\* ------------------------------------------------------- aggregation cache

\* Mutant: a value aged exactly CACHE_TTL is expired.
getCachedVideos_OffByOne ==
    IF ~IsSome(cachedVideos) THEN None
    ELSE IF now - lastFetchTime >= CACHE_TTL THEN None
    ELSE cachedVideos

\* youtube.ts:33-43
getCachedVideos ==
    IF ~IsSome(cachedVideos) THEN None
    ELSE IF now - lastFetchTime > CACHE_TTL THEN None
    ELSE cachedVideos

\* Mutant: a fresh value is not overwritten.
setCachedVideos_KeepsFresh(videos) ==
    IF IsSome(cachedVideos) /\ now - lastFetchTime <= CACHE_TTL
    THEN [cachedVideos |-> cachedVideos, lastFetchTime |-> lastFetchTime]
    ELSE [cachedVideos |-> Some(videos), lastFetchTime |-> now]

\* Mutant: the value is replaced, the time of the store is not.
setCachedVideos_StaleStamp(videos) ==
    [cachedVideos |-> Some(videos), lastFetchTime |-> lastFetchTime]

\* youtube.ts:45-49
setCachedVideos(videos) ==
    [cachedVideos |-> Some(videos), lastFetchTime |-> now]

Slot == [cachedVideos |-> cachedVideos, lastFetchTime |-> lastFetchTime]

\* ------------------------------------------------------------------ events

Idle == [pc |-> "idle", handle |-> None, n |-> 0]

OpOf(p) ==
    IF p \in ReqProcs THEN "request"
    ELSE IF p \in AutoProcs THEN "auto"
    ELSE IF p \in WarmProcs THEN "warmup"
    ELSE IF p \in TickProcs THEN "tick"
    ELSE "resolve"

\* The record of a step: who acted (p, op), as a call or on a remote
\* response (kind, stage, outcome), with which handle and cache key (handle,
\* key), what came of it (then, next, value, id, status, err), and what the
\* step found (hit, pre, by, ids).
NoEvent ==
    [kind |-> "none", op |-> "-", p |-> "-", stage |-> "-", outcome |-> "-",
     then |-> "-", next |-> "-", value |-> None, id |-> None, key |-> None,
     hit |-> FALSE, pre |-> Slot, by |-> storedBy.n, status |-> 0, err |-> <<>>,
     n |-> 0, handle |-> None, ids |-> channelIdCache]

CallEvent(p) ==
    [NoEvent EXCEPT !.kind = "call", !.op = OpOf(p), !.p = p,
                    !.hit = IsSome(getCachedVideos)]

ResponseEvent(p, outcome) ==
    [NoEvent EXCEPT !.kind = "response", !.op = OpOf(p), !.p = p,
                    !.stage = calls[p].pc, !.outcome = outcome,
                    !.n = calls[p].n, !.hit = IsSome(getCachedVideos)]

RemoteStages == {"search", "channel", "playlist", "videos"}
InFlight(p) == calls[p].pc \in RemoteStages

\* Outcomes of one remote call: fetch() or res.json() rejects; the body has
\* no items list (the error body of a non-success response); the items are
\* there but the leaf the code reads from them is not; all well.
Outcomes == {"error", "noItems", "malformed", "ok"}

\* The answers the server's channel search gets: a search item without
\* channelId is left to the specifications of youtube.ts on its own.
ServerSearchOutcomes == Outcomes \ {"malformed"}

\* The catalog API answers a call without a valid key with an error body.
OutcomesFor(apiKey) ==
    IF IsSome(apiKey) /\ Get(apiKey) >= MinKeyLength
    THEN Outcomes
    ELSE {"error", "noItems"}

\* Error messages, as sequences of words.
FetchFailed == <<"fetch", "failed">>
NotFound == <<"Channel", "handle", "not", "found">>
TypeError == <<"Cannot", "read", "properties", "of", "undefined">>

\* A body that is no JSON at all.
BadBodies == {<<"missing">>}
\* The SyntaxError of res.json() on such a body, in the wording that quotes
\* the body.  (The older wording of the runtime, "Unexpected token m in JSON
\* at position 0", has neither of the words the handler looks for, like
\* FetchFailed.)
JsonErrorQuoting(body) ==
    <<"Unexpected", "token">> \o body \o <<"is", "not", "valid", "JSON">>

\* What await fetch(...) and await res.json() reject with.
Rejections == {FetchFailed} \cup {JsonErrorQuoting(b) : b \in BadBodies}

\* String.prototype.includes, word by word.
includes(message, word) == \E i \in 1..Len(message) : message[i] = word

\* ---------------------------------------------------------------- resolver

\* A search for key is in flight.
Searching(key) ==
    \E q \in Procs : calls[q].pc = "search" /\ normalize(Get(calls[q].handle)) = key


\* The log after the search for key was answered.
logAnswer(key, outcome) ==
    [resolverLog EXCEPT ![key].ok = IF outcome = "ok" THEN @ + 1 ELSE @,
                        ![key].notFound = IF outcome = "noItems" THEN @ + 1 ELSE @]

MapSet(m, k, v) == [x \in DOMAIN m \cup {k} |-> IF x = k THEN v ELSE m[x]]

\* Mutant: the cache is looked up by the handle as given.
resolveCached_RawKey(channelHandle) ==
    IF channelHandle \in DOMAIN channelIdCache
    THEN Some(channelIdCache[channelHandle])
    ELSE None

\* youtube.ts:83-87  the part of resolveChannelHandleToId before its await:
\* the cached identifier, or none when the remote search has to be made.
resolveCached(channelHandle) ==
    IF normalize(channelHandle) \in DOMAIN channelIdCache
    THEN Some(channelIdCache[normalize(channelHandle)])
    ELSE None

\* The log after a resolution of channelHandle has begun.
logResolve(channelHandle) ==
    LET key == normalize(channelHandle) IN
    [resolverLog EXCEPT
        ![key].resolved = @ + 1,
        ![key].issued = IF IsSome(resolveCached(channelHandle)) THEN @ ELSE @ + 1,
        ![key].overlapped = @ \/ Searching(key)]

\* youtube.ts:113-119  the first remote call of fetchYouTubeVideos, or
\* "threw" when channelIdOrHandle is undefined (startsWith of undefined).
firstStage(channelIdOrHandle) ==
    IF ~IsSome(channelIdOrHandle) THEN "threw"
    ELSE IF startsWithUC(Get(channelIdOrHandle)) THEN "channel"
    ELSE IF IsSome(resolveCached(Get(channelIdOrHandle))) THEN "channel"
    ELSE "search"

\* Mutant: a search without items is remembered in the cache.
searchResult_CachesNotFound(outcome, id) ==
    CASE outcome = "error" ->
            {[err |-> rejection, id |-> None, set |-> FALSE] : rejection \in Rejections}
      [] outcome = "noItems" -> {[err |-> NotFound, id |-> None, set |-> TRUE]}
      [] outcome = "malformed" -> {[err |-> <<>>, id |-> None, set |-> TRUE]}
      [] OTHER -> {[err |-> <<>>, id |-> Some(id), set |-> TRUE]}

\* youtube.ts:96-102  what the resolver does with the search response:
\* the errors it can throw, or the identifier it caches and returns
\* (undefined when items[0].id has no channelId).
searchResult(outcome, id) ==
    CASE outcome = "error" ->
            {[err |-> rejection, id |-> None, set |-> FALSE] : rejection \in Rejections}
      [] outcome = "noItems" -> {[err |-> NotFound, id |-> None, set |-> FALSE]}
      [] outcome = "malformed" -> {[err |-> <<>>, id |-> None, set |-> TRUE]}
      [] OTHER -> {[err |-> <<>>, id |-> Some(id), set |-> TRUE]}

\* youtube.ts:123-140  what fetchYouTubeVideos does with the response of
\* the channel lookup, the playlist listing and the batch lookup: the error
\* errors it can throw (the empty one when it goes on).
stageError(outcome) ==
    CASE outcome = "error" -> Rejections
      [] outcome = "noItems" -> {TypeError}
      [] OTHER -> {<<>>}

nextStage(stage) ==
    CASE stage = "search" -> "channel"
      [] stage = "channel" -> "playlist"
      [] stage = "playlist" -> "videos"
      [] OTHER -> "idle"

\* ----------------------------------------------------------- remote catalog

Item(i, t, d) == [id |-> i, publishedAt |-> t, duration |-> d]

PT1M == <<"P", "T", "1", "M">>
PT1M1S == <<"P", "T", "1", "M", "1", "S">>
PT59S == <<"P", "T", "5", "9", "S">>

\* Batches the remote video lookup answers with.
Catalogs == {<<Item(1, 2, Some(PT1M1S)), Item(2, 1, Some(PT1M))>>,
             <<Item(1, 1, Some(PT59S))>>}
\* The batch it answers the server with.
ServerCatalogs == {<<Item(1, 2, Some(PT1M1S)), Item(2, 1, Some(PT1M))>>}
\* A batch whose item has no contentDetails.duration.
MalformedCatalogs == {<<Item(1, 1, None)>>}

\* ------------------------------------------------------------ HTTP handler

\* index.ts:99-124  the status the handler answers with before calling the
\* core, 0 when the configuration passes.  The key is known by its length.
validateConfig(apiKey, channelHandle) ==
    IF ~IsSome(apiKey) \/ Get(apiKey) = 0 THEN 400
    ELSE IF ~IsSome(channelHandle) \/ Get(channelHandle) = <<>> THEN 400
    ELSE IF Get(apiKey) < MinKeyLength THEN 400
    ELSE 0

\* index.ts:139-140  errorMessage.includes('Configuration') ||
\* errorMessage.includes('missing') ? 400 : 500
statusFor(errorMessage) ==
    IF includes(errorMessage, "Configuration") \/ includes(errorMessage, "missing")
    THEN 400
    ELSE 500

\* ----------------------------------------------------------------- actions

\* Mutant: a failed refresh drops the cached value.
tickCatch_ClearsCache ==
    [cachedVideos |-> None, lastFetchTime |-> 0, timer |-> timer]

\* Mutant: a failed refresh resets the time of the last store.
tickCatch_ResetsStamp ==
    [cachedVideos |-> cachedVideos, lastFetchTime |-> 0, timer |-> timer]

\* Mutant: a failed refresh stops the interval timer.
tickCatch_StopsTimer ==
    [cachedVideos |-> cachedVideos, lastFetchTime |-> lastFetchTime,
     timer |-> None]

\* youtube.ts:206-208  the catch of the interval callback only logs.
tickCatch ==
    [cachedVideos |-> cachedVideos, lastFetchTime |-> lastFetchTime,
     timer |-> timer]

\* Budget of the callers other than the timer.
CanCall == IsSome(timer) /\ seq - Get(timer).fired < MaxCalls

\* fetchYouTubeVideos up to its first await (youtube.ts:109-123).
BeginFetch(p, channelIdOrHandle, e) ==
    LET st == firstStage(channelIdOrHandle)
        n == seq + 1
    IN  /\ seq' = n
        /\ calls' = IF st = "threw" THEN calls
                    ELSE [calls EXCEPT ![p] =
                            [pc |-> st, handle |-> channelIdOrHandle, n |-> n]]
        /\ lastTick' = IF st = "threw" /\ p \in TickProcs
                       THEN [outcome |-> "failed", pre |-> Slot, n |-> n]
                       ELSE lastTick
        /\ ev' = IF st = "threw"
                 THEN [e EXCEPT !.then = IF p \in LoggingProcs THEN "logged" ELSE "threw",
                                !.next = "idle", !.err = TypeError, !.n = n,
                                !.status = IF p \in ReqProcs THEN statusFor(TypeError) ELSE 0]
                 ELSE [e EXCEPT !.then = "fetching", !.next = st, !.n = n]
        /\ UNCHANGED <<cachedVideos, lastFetchTime, storedBy, channelIdCache,
                       resolverLog>>

\* Mutant: a miss while another call's fetch is pending starts no fetch of
\* its own and answers with what the slot holds.
AutoStep_JoinsInFlight(p) ==
    IF IsSome(getCachedVideos)
       \/ \E q \in (AutoProcs \cup WarmProcs) \ {p} : InFlight(q)
    THEN /\ ev' = [CallEvent(p) EXCEPT !.then = "returned", !.next = "idle",
                                       !.value = cachedVideos]
         /\ UNCHANGED <<calls, seq, resolverLog, lastTick, cachedVideos,
                        lastFetchTime, storedBy, channelIdCache>>
    ELSE BeginFetch(p, env.channelHandle, CallEvent(p))

\* youtube.ts:177-184  fetchYouTubeVideosAuto up to its await.
AutoStep(p) ==
    LET cached == getCachedVideos IN
    IF IsSome(cached)
    THEN /\ ev' = [CallEvent(p) EXCEPT !.then = "returned", !.next = "idle",
                                       !.value = cached]
         /\ UNCHANGED <<calls, seq, resolverLog, lastTick, cachedVideos,
                        lastFetchTime, storedBy, channelIdCache>>
    ELSE BeginFetch(p, env.channelHandle, CallEvent(p))

\* index.ts:160-168 and youtube.ts:193-210  the listen callback: the warm-up
\* call, then setInterval.
Listen ==
    /\ ~IsSome(timer)
    /\ \E p \in WarmProcs : AutoStep(p)
    /\ timer' = Some([due |-> now + CACHE_TTL, fired |-> 0])
    /\ UNCHANGED <<env, now, pipe, parse>>

\* Any other call of the exported fetchYouTubeVideosAuto, with the
\* configured arguments.
AutoCall(p) ==
    /\ CanCall
    /\ calls[p].pc = "idle"
    /\ AutoStep(p)
    /\ UNCHANGED <<env, now, timer, pipe, parse>>

\* index.ts:93-127  GET /api/youtube/videos up to its await.
Request(p) ==
    /\ CanCall
    /\ calls[p].pc = "idle"
    /\ LET status == validateConfig(env.apiKey, env.channelHandle) IN
       IF status # 0
       THEN /\ ev' = [CallEvent(p) EXCEPT !.then = "rejected", !.next = "idle",
                                          !.status = status]
            /\ UNCHANGED <<calls, seq, resolverLog, lastTick, cachedVideos,
                           lastFetchTime, storedBy, channelIdCache>>
       ELSE BeginFetch(p, env.channelHandle, CallEvent(p))
    /\ UNCHANGED <<env, now, timer, pipe, parse>>

\* Mutant: the interval callback goes through the cache check.
tickFetch_ThroughCache(p) == AutoStep(p)

\* youtube.ts:204  the interval callback calls fetchYouTubeVideos itself.
tickFetch(p) == BeginFetch(p, env.channelHandle, CallEvent(p))

\* youtube.ts:202-204  the interval callback up to its await.
Tick(p) ==
    /\ IsSome(timer)
    /\ now = Get(timer).due
    /\ calls[p].pc = "idle"
    /\ timer' = Some([due |-> Get(timer).due + CACHE_TTL,
                      fired |-> Get(timer).fired + 1])
    /\ tickFetch(p)
    /\ UNCHANGED <<env, now, pipe, parse>>

\* A minute passes; a due interval callback runs first.
Advance(limit) ==
    /\ IsSome(timer)
    /\ now < limit
    /\ now < Get(timer).due
    /\ now' = now + 1
    /\ ev' = [NoEvent EXCEPT !.kind = "advance"]
    /\ UNCHANGED <<env, cachedVideos, lastFetchTime, channelIdCache, timer, calls,
                   seq, resolverLog, lastTick, storedBy, pipe, parse>>

\* The invocation of p ends in the error err: thrown to the caller of
\* fetchYouTubeVideosAuto, answered by the handler's catch (index.ts:136-147),
\* or caught in the interval callback.
Fail(p, e, err) ==
    /\ calls' = [calls EXCEPT ![p] = Idle]
    /\ ev' = [e EXCEPT !.then = IF p \in LoggingProcs THEN "logged" ELSE "threw",
                       !.next = "idle", !.err = err,
                       !.status = IF p \in ReqProcs THEN statusFor(err) ELSE 0]
    /\ IF p \in TickProcs
       THEN /\ cachedVideos' = tickCatch.cachedVideos
            /\ lastFetchTime' = tickCatch.lastFetchTime
            /\ timer' = tickCatch.timer
            /\ lastTick' = [outcome |-> "failed", pre |-> Slot, n |-> calls[p].n]
       ELSE UNCHANGED <<cachedVideos, lastFetchTime, timer, lastTick>>
    /\ UNCHANGED storedBy

\* fetchYouTubeVideos returned result to p: the handler answers 200
\* (index.ts:127-135), the wrapper and the interval callback store it
\* (youtube.ts:184-186, 204-205).
Complete(p, e, result) ==
    /\ calls' = [calls EXCEPT ![p] = Idle]
    /\ IF p \in ReqProcs
       THEN /\ ev' = [e EXCEPT !.then = "returned", !.next = "idle",
                               !.value = Some(result), !.status = 200]
            /\ UNCHANGED <<cachedVideos, lastFetchTime, storedBy>>
       ELSE /\ cachedVideos' = setCachedVideos(result).cachedVideos
            /\ lastFetchTime' = setCachedVideos(result).lastFetchTime
            /\ storedBy' = [n |-> calls[p].n, at |-> now]
            /\ ev' = [e EXCEPT !.then = IF p \in LoggingProcs THEN "stored" ELSE "returned",
                               !.next = "idle", !.value = Some(result)]
    /\ lastTick' = IF p \in TickProcs
                   THEN [outcome |-> "ok", pre |-> Slot, n |-> calls[p].n]
                   ELSE lastTick
    /\ UNCHANGED timer

\* youtube.ts:93-102  the channel search answers.
SearchResponse(p, outcomes) ==
    /\ calls[p].pc = "search"
    /\ \E outcome \in OutcomesFor(env.apiKey) \cap outcomes, id \in ChannelIds :
       \E r \in searchResult(outcome, id) :
          LET key == normalize(Get(calls[p].handle))
              e == [ResponseEvent(p, outcome) EXCEPT !.handle = calls[p].handle,
                                                     !.key = Some(key)]
          IN  /\ resolverLog' = IF p \in ResolveProcs THEN logAnswer(key, outcome)
                                ELSE resolverLog
              /\ channelIdCache' = IF r.set THEN MapSet(channelIdCache, key, r.id)
                                   ELSE channelIdCache
              /\ IF r.err # <<>>
                 THEN Fail(p, e, r.err)
                 ELSE /\ calls' = [calls EXCEPT ![p] =
                             IF p \in ResolveProcs THEN Idle ELSE [@ EXCEPT !.pc = "channel"]]
                      /\ ev' = IF p \in ResolveProcs
                               THEN [e EXCEPT !.then = "returned", !.next = "idle", !.id = r.id]
                               ELSE [e EXCEPT !.then = "fetching", !.next = "channel", !.id = r.id]
                      /\ UNCHANGED <<cachedVideos, lastFetchTime, storedBy, timer,
                                     lastTick>>
    /\ UNCHANGED <<env, now, seq, pipe, parse>>

\* youtube.ts:123-127  the channel lookup answers.
ChannelResponse(p) ==
    /\ calls[p].pc = "channel"
    /\ \E outcome \in OutcomesFor(env.apiKey) :
       \E err \in stageError(outcome) :
          LET e == ResponseEvent(p, outcome) IN
          IF err # <<>>
          THEN Fail(p, e, err)
          ELSE /\ calls' = [calls EXCEPT ![p].pc = nextStage("channel")]
               /\ ev' = [e EXCEPT !.then = "fetching", !.next = nextStage("channel")]
               /\ UNCHANGED <<cachedVideos, lastFetchTime, storedBy, timer, lastTick>>
    /\ UNCHANGED <<env, now, seq, resolverLog, channelIdCache, pipe, parse>>

\* youtube.ts:131-136  the playlist listing answers.
PlaylistResponse(p) ==
    /\ calls[p].pc = "playlist"
    /\ \E outcome \in OutcomesFor(env.apiKey) :
       \E err \in stageError(outcome) :
          LET e == ResponseEvent(p, outcome) IN
          IF err # <<>>
          THEN Fail(p, e, err)
          ELSE /\ calls' = [calls EXCEPT ![p].pc = nextStage("playlist")]
               /\ ev' = [e EXCEPT !.then = "fetching", !.next = nextStage("playlist")]
               /\ UNCHANGED <<cachedVideos, lastFetchTime, storedBy, timer, lastTick>>
    /\ UNCHANGED <<env, now, seq, resolverLog, channelIdCache, pipe, parse>>

\* youtube.ts:139-170  the batch video lookup answers.
VideosResponse(p, catalogs) ==
    /\ calls[p].pc = "videos"
    /\ \E outcome \in OutcomesFor(env.apiKey) :
       \E err \in stageError(outcome) :
          LET e == ResponseEvent(p, outcome) IN
          IF err # <<>>
          THEN Fail(p, e, err)
          ELSE \E items \in (IF outcome = "ok" THEN catalogs ELSE MalformedCatalogs) :
                  Complete(p, e, processItems(items))
    /\ UNCHANGED <<env, now, seq, resolverLog, channelIdCache, pipe, parse>>

PipeIdle ==
    [stage |-> "idle", items |-> <<>>, videos |-> <<>>, longVideos |-> <<>>,
     shorts |-> <<>>, result |-> None]

ParseIdle == [stage |-> "idle", text |-> <<>>, form |-> None, seconds |-> None]

InitCommon ==
    /\ now = 1
    /\ cachedVideos = None
    /\ lastFetchTime = 0
    /\ channelIdCache = [k \in {} |-> None]
    /\ timer = None
    /\ calls = [p \in Procs |-> Idle]
    /\ seq = 0
    /\ resolverLog = [k \in NormKeys |->
                        [resolved |-> 0, issued |-> 0, ok |-> 0, notFound |-> 0,
                         overlapped |-> FALSE]]
    /\ lastTick = [outcome |-> "none", pre |-> Slot, n |-> 0]
    /\ storedBy = [n |-> 0, at |-> 0]
    /\ ev = NoEvent

Init ==
    /\ env \in [apiKey : {None} \cup {Some(k) : k \in EnvKeyLengths},
                channelHandle : {None} \cup {Some(h) : h \in ServerHandles}]
    /\ InitCommon
    /\ pipe = PipeIdle
    /\ parse = ParseIdle

\* The server of index.ts: start-up, the handler, the interval timer.
Next ==
    \/ Listen
    \/ Advance(MaxTime)
    \/ \E p \in ReqProcs : Request(p)
    \/ \E p \in TickProcs : Tick(p)
    \/ \E p \in Procs : SearchResponse(p, ServerSearchOutcomes)
    \/ \E p \in Procs : ChannelResponse(p)
    \/ \E p \in Procs : PlaylistResponse(p)
    \/ \E p \in Procs : VideosResponse(p, ServerCatalogs)

Spec == Init /\ [][Next]_vars

\* youtube.ts under any importer: the auto refresh is started and
\* fetchYouTubeVideosAuto is called at any moment.
InitApi ==
    /\ env \in [apiKey : {Some(MinKeyLength)},
                channelHandle : {Some(h) : h \in EnvHandles}]
    /\ InitCommon
    /\ pipe = PipeIdle
    /\ parse = ParseIdle

NextApi ==
    \/ Listen
    \/ Advance(MaxApiTime)
    \/ \E p \in AutoProcs : AutoCall(p)
    \/ \E p \in TickProcs : Tick(p)
    \/ \E p \in Procs : SearchResponse(p, Outcomes)
    \/ \E p \in Procs : ChannelResponse(p)
    \/ \E p \in Procs : PlaylistResponse(p)
    \/ \E p \in Procs : VideosResponse(p, Catalogs)

SpecApi == InitApi /\ [][NextApi]_vars

\* resolveChannelHandleToId called directly, with any handle, by callers
\* that interleave at its await.
ResolveCall(p, channelHandle) ==
    /\ seq < MaxCalls
    /\ calls[p].pc = "idle"
    /\ seq' = seq + 1
    /\ resolverLog' = logResolve(channelHandle)
    /\ LET cached == resolveCached(channelHandle)
           e == [CallEvent(p) EXCEPT !.n = seq + 1,
                                     !.handle = Some(channelHandle),
                                     !.key = Some(normalize(channelHandle))]
       IN  IF IsSome(cached)
           THEN /\ ev' = [e EXCEPT !.then = "returned", !.next = "idle",
                                   !.id = Get(cached)]
                /\ UNCHANGED calls
           ELSE /\ calls' = [calls EXCEPT ![p] =
                       [pc |-> "search", handle |-> Some(channelHandle), n |-> seq + 1]]
                /\ ev' = [e EXCEPT !.then = "fetching", !.next = "search"]
    /\ UNCHANGED <<env, now, cachedVideos, lastFetchTime, channelIdCache, timer,
                   lastTick, storedBy, pipe, parse>>

InitResolver ==
    /\ env = [apiKey |-> Some(MinKeyLength), channelHandle |-> Some(AtF)]
    /\ InitCommon
    /\ pipe = PipeIdle
    /\ parse = ParseIdle

NextResolver ==
    \/ \E p \in ResolveProcs, h \in Handles : ResolveCall(p, h)
    \/ \E p \in ResolveProcs : SearchResponse(p, Outcomes)

SpecResolver == InitResolver /\ [][NextResolver]_vars

\* ------------------------------------------------- the pipeline step by step

Timestamps == {1, 2}
DurationTexts == {Some(PT1M), Some(PT1M1S), None}

\* Every batch of at most MaxVideos items, item i being the i-th returned.
ItemLists ==
    UNION {{[i \in 1..n |-> Item(i, f[i][1], f[i][2])] :
               f \in [1..n -> Timestamps \X DurationTexts]} : n \in 0..MaxVideos}

\* youtube.ts:142-150
PipeMap ==
    /\ pipe.stage = "items"
    /\ pipe' = [pipe EXCEPT !.stage = "mapped", !.videos = mapItems(pipe.items)]
    /\ UNCHANGED <<env, now, cachedVideos, lastFetchTime, channelIdCache, timer,
                   calls, seq, resolverLog, lastTick, storedBy, ev, parse>>

\* youtube.ts:153-157
PipeSort ==
    /\ pipe.stage = "mapped"
    /\ pipe' = [pipe EXCEPT !.stage = "sorted", !.videos = sortByLatest(pipe.videos)]
    /\ UNCHANGED <<env, now, cachedVideos, lastFetchTime, channelIdCache, timer,
                   calls, seq, resolverLog, lastTick, storedBy, ev, parse>>

\* youtube.ts:159-160
PipeFilter ==
    /\ pipe.stage = "sorted"
    /\ pipe' = [pipe EXCEPT !.stage = "filtered",
                            !.longVideos = filterLong(pipe.videos),
                            !.shorts = filterShorts(pipe.videos)]
    /\ UNCHANGED <<env, now, cachedVideos, lastFetchTime, channelIdCache, timer,
                   calls, seq, resolverLog, lastTick, storedBy, ev, parse>>

\* youtube.ts:162-170
PipeReturn ==
    /\ pipe.stage = "filtered"
    /\ pipe' = [pipe EXCEPT !.stage = "returned",
                            !.result = Some(buildResult(pipe.longVideos, pipe.shorts))]
    /\ UNCHANGED <<env, now, cachedVideos, lastFetchTime, channelIdCache, timer,
                   calls, seq, resolverLog, lastTick, storedBy, ev, parse>>

\* youtube.ts:184-185, 204-205  the returned value is stored.
PipeStore ==
    /\ pipe.stage = "returned"
    /\ pipe' = [pipe EXCEPT !.stage = "stored"]
    /\ cachedVideos' = setCachedVideos(Get(pipe.result)).cachedVideos
    /\ lastFetchTime' = setCachedVideos(Get(pipe.result)).lastFetchTime
    /\ UNCHANGED <<env, now, channelIdCache, timer, calls, seq, resolverLog,
                   lastTick, storedBy, ev, parse>>

InitPipe ==
    /\ env = [apiKey |-> Some(MinKeyLength), channelHandle |-> Some(AtF)]
    /\ InitCommon
    /\ pipe \in {[PipeIdle EXCEPT !.stage = "items", !.items = it] : it \in ItemLists}
    /\ parse = ParseIdle

NextPipe == PipeMap \/ PipeSort \/ PipeFilter \/ PipeReturn \/ PipeStore

SpecPipe == InitPipe /\ [][NextPipe]_vars

\* ------------------------------------------------- parseDuration on its own

\* Decimal digits of n, as the remote writes a count.
RECURSIVE Decimal(_)
Decimal(n) ==
    IF n < 10 THEN <<Digits[n + 1]>>
    ELSE Decimal(n \div 10) \o <<Digits[(n % 10) + 1]>>

\* An optional component of an ISO 8601 duration: nothing, or count and unit.
Component(count, unit) ==
    IF IsSome(count) THEN Decimal(Get(count)) \o <<unit>> ELSE <<>>

\* youtube.ts:52  the text PT[nH][nM][nS] of the counts form = <<h, m, s>>.
Iso8601(form) ==
    <<"P", "T">> \o Component(form[1], "H") \o Component(form[2], "M")
                 \o Component(form[3], "S")

Counts == {None} \cup {Some(n) : n \in 0..MaxComponent}
Forms == Counts \X Counts \X Counts

Alphabet == {"P", "T", "1", "M", "S", "x"}
\* Every text of at most MaxText characters of Alphabet.
Texts == UNION {[1..n -> Alphabet] : n \in 0..MaxText}

\* A well-formed duration text, or any short text.
InitParse ==
    /\ env = [apiKey |-> Some(MinKeyLength), channelHandle |-> Some(AtF)]
    /\ InitCommon
    /\ pipe = PipeIdle
    /\ parse \in {[ParseIdle EXCEPT !.stage = "text", !.text = Iso8601(f),
                                     !.form = Some(f)] : f \in Forms}
              \cup {[ParseIdle EXCEPT !.stage = "text", !.text = t] : t \in Texts}

\* youtube.ts:54-67  parseDuration(duration) is called and returns.
ParseCall ==
    /\ parse.stage = "text"
    /\ parse' = [parse EXCEPT !.stage = "parsed",
                              !.seconds = Some(parseDuration(Some(parse.text)))]
    /\ UNCHANGED <<env, now, cachedVideos, lastFetchTime, channelIdCache, timer,
                   calls, seq, resolverLog, lastTick, storedBy, ev, pipe>>

NextParse == ParseCall

SpecParse == InitParse /\ [][NextParse]_vars

\* ------------------------------------------------------------------ claims

\* C1 (as claimed): a correctly configured GET /api/youtube/videos that
\* arrives while the cache slot is fresh is answered with the stored value
\* and starts no fetch.
C1_RequestServedFromCache ==
    (ev.kind = "call" /\ ev.op = "request" /\ ev.then # "rejected" /\ ev.hit)
        => (ev.then = "returned" /\ ev.value = ev.pre.cachedVideos
            /\ ~InFlight(ev.p))

\* C2: a call of fetchYouTubeVideosAuto that finds a value stored at most
\* CACHE_TTL ago returns exactly that value, starts no fetch and leaves the
\* slot alone; one that finds the slot empty or older starts one fetch, and
\* when that fetch returns its result is in the slot with lastFetchTime the
\* instant of the store, and is the value returned; when it fails the error
\* goes to the caller and the slot is left alone.
C2_AutoFreshOrFetch ==
    LET fresh == IsSome(ev.pre.cachedVideos)
                 /\ now - ev.pre.lastFetchTime <= CACHE_TTL
    IN  /\ (ev.kind = "call" /\ ev.op \in {"auto", "warmup"}) =>
              /\ Slot = ev.pre
              /\ IF fresh
                 THEN /\ ev.then = "returned"
                      /\ ev.value = ev.pre.cachedVideos
                      /\ ~InFlight(ev.p)
                      /\ ev.n = 0
                 ELSE /\ ev.then = "fetching"
                      /\ InFlight(ev.p)
                      /\ ev.n = seq
                      /\ calls[ev.p].n = seq
        /\ (ev.kind = "response" /\ ev.op \in {"auto", "warmup"} /\ ev.next = "idle") =>
              /\ ~InFlight(ev.p)
              /\ IF ev.then \in {"returned", "stored"}
                 THEN /\ IsSome(ev.value)
                      /\ cachedVideos = ev.value
                      /\ lastFetchTime = now
                 ELSE /\ ev.then \in {"threw", "logged"}
                      /\ Slot = ev.pre

\* C2 witness: a call made exactly CACHE_TTL after the store is served from
\* the slot.
C2_HitAtTtl ==
    /\ ev.kind = "call" /\ ev.op = "auto" /\ ev.then = "returned"
    /\ now - lastFetchTime = CACHE_TTL

\* C3 (as claimed): from a failed refresh tick until the next successful
\* one, getCachedVideos returns the value stored before the failure.
C3_ServableUntilNextTick ==
    (lastTick.outcome = "failed" /\ IsSome(lastTick.pre.cachedVideos))
        => getCachedVideos = lastTick.pre.cachedVideos

\* C3 (amended): a failed refresh tick leaves the slot as it found it, and
\* while no other fetch stores, getCachedVideos returns that value as long
\* as it is at most CACHE_TTL old and none once it is older, whether or not
\* a successful tick has happened since.
C3_ServableUntilExpiry ==
    /\ (ev.op = "tick" /\ ev.then = "logged") => Slot = ev.pre
    /\ (lastTick.outcome = "failed" /\ IsSome(lastTick.pre.cachedVideos)
        /\ Slot = lastTick.pre)
          => getCachedVideos =
                IF now - lastTick.pre.lastFetchTime <= CACHE_TTL
                THEN lastTick.pre.cachedVideos
                ELSE None

\* C3 witness: the latest tick failed, no tick has succeeded since, and the
\* value it left in the slot has expired.
C3_ExpiredAfterFailedTick ==
    /\ lastTick.outcome = "failed"
    /\ IsSome(lastTick.pre.cachedVideos)
    /\ Slot = lastTick.pre
    /\ getCachedVideos = None

\* C4: a fetch that fails inside the interval callback is caught there: the
\* stored value and lastFetchTime stay as they were, nothing is thrown on,
\* the timer stays set with its next tick at most CACHE_TTL away, and every
\* tick, whatever became of the earlier ones, starts a fetch.
C4_TickFailureSwallowed ==
    /\ (ev.op = "tick" /\ ev.then = "logged") =>
          /\ Slot = ev.pre
          /\ ev.status = 0
          /\ ~InFlight(ev.p)
    /\ ev.op = "tick" => ev.then # "threw"
    /\ lastTick.outcome # "none" =>
          /\ IsSome(timer)
          /\ now <= Get(timer).due
          /\ Get(timer).due - now <= CACHE_TTL
    /\ (ev.kind = "call" /\ ev.op = "tick") =>
          \/ ev.then = "fetching" /\ InFlight(ev.p) /\ ev.n = seq
          \/ ev.then = "logged" /\ ~IsSome(env.channelHandle) /\ ev.n = seq

\* C4 witness: the second tick starts its fetch after the first one failed.
C4_TickAfterFailedTick ==
    /\ ev.kind = "call" /\ ev.op = "tick" /\ ev.then = "fetching"
    /\ lastTick.outcome = "failed"
    /\ Get(timer).fired = 2

\* C5: whenever a fetch made for fetchYouTubeVideosAuto or for the interval
\* callback returns, the slot holds its result and the instant of this
\* store, whichever fetch started first and whatever the slot held.
C5_LastWriteWins ==
    (ev.kind = "response" /\ ev.op \in {"auto", "warmup", "tick"}
     /\ ev.then \in {"returned", "stored"})
        => (cachedVideos = ev.value /\ lastFetchTime = now /\ storedBy.n = ev.n)

\* C5 witness: the fetch of a fetchYouTubeVideosAuto call overwrites the
\* different result of a timer tick's fetch that started after it.
C5_OlderOverwritesNewer ==
    /\ ev.kind = "response" /\ ev.op = "auto" /\ ev.then = "returned"
    /\ ev.n < ev.by
    /\ lastTick.outcome = "ok" /\ lastTick.n = ev.by
    /\ ev.value # ev.pre.cachedVideos

\* C6 (as claimed): when every search issued for a normalized handle has
\* returned a matching item, one search was issued for it, however the
\* resolutions interleaved.
C6_OneSearchPerKey ==
    \A k \in NormKeys :
        resolverLog[k].ok = resolverLog[k].issued => resolverLog[k].issued <= 1

\* C6 (amended): resolutions of one normalized handle of which none begins
\* while the search of another is in flight make exactly one search in
\* total, provided it returns a matching item; a resolution served from the
\* cache returns the cached identifier.
C6_OneSearchWhenSequential ==
    /\ \A k \in NormKeys :
          (resolverLog[k].ok = resolverLog[k].issued /\ ~resolverLog[k].overlapped)
              => /\ resolverLog[k].issued <= 1
                 /\ resolverLog[k].resolved >= 1 => resolverLog[k].issued = 1
    /\ (ev.kind = "call" /\ ev.op = "resolve" /\ ev.then = "returned") =>
          /\ Get(ev.key) \in DOMAIN channelIdCache
          /\ ev.id = channelIdCache[Get(ev.key)]

\* C6 witness: the second resolution of a normalized handle is served from
\* the cache after the single search of the first.
C6_SecondResolutionCached ==
    /\ ev.kind = "call" /\ ev.op = "resolve" /\ ev.then = "returned"
    /\ resolverLog[Get(ev.key)].resolved = 2
    /\ resolverLog[Get(ev.key)].issued = 1
    /\ resolverLog[Get(ev.key)].ok = 1

\* C7 (as claimed): no remote call is in flight while the API key is absent
\* or shorter than MinKeyLength or the channel handle is absent.
C7_NoRemoteCallUnconfigured ==
    (\E p \in Procs : InFlight(p))
        => /\ IsSome(env.apiKey)
           /\ Get(env.apiKey) >= MinKeyLength
           /\ IsSome(env.channelHandle)

\* C8 (as claimed): a remote stage answered by a network error, an error
\* body or a malformed payload ends the invocation in an error: no further
\* remote call, no value returned, the slot left alone.
C8_FailureAbortsInvocation ==
    (ev.kind = "response" /\ ev.outcome # "ok")
        => /\ ev.then \in {"threw", "logged"}
           /\ ev.next = "idle"
           /\ ~IsSome(ev.value)
           /\ Slot = ev.pre

\* The items of the batch that parse to more than ShortMaxSeconds.
LongItems == {i \in 1..Len(pipe.items) : parseDuration(pipe.items[i].duration) > ShortMaxSeconds}

\* C9: the returned heroVideo is none exactly when longVideos is empty,
\* which is when no fetched video is longer than 60 seconds; otherwise it
\* is the first element of longVideos, a fetched video longer than 60
\* seconds that no other such video was published after; the value stored
\* in the slot is the returned one.
C9_HeroIsLatestLong ==
    pipe.stage \in {"returned", "stored"} =>
        LET r == Get(pipe.result) IN
        /\ ~IsSome(r.heroVideo) <=> r.longVideos = <<>>
        /\ r.longVideos = <<>> <=> LongItems = {}
        /\ IsSome(r.heroVideo) =>
              /\ Get(r.heroVideo) = r.longVideos[1]
              /\ Get(r.heroVideo).videoId \in LongItems
              /\ Get(r.heroVideo) = toVideo(pipe.items[Get(r.heroVideo).videoId])
              /\ \A i \in LongItems :
                    pipe.items[i].publishedAt <= Get(r.heroVideo).publishedAt
        /\ pipe.stage = "stored" => cachedVideos = pipe.result

\* C9 witness: the hero is stored, and it is neither the first long video
\* the remote returned nor the only one.
C9_HeroNotFirstReturned ==
    /\ pipe.stage = "stored"
    /\ IsSome(Get(cachedVideos).heroVideo)
    /\ Cardinality(LongItems) >= 2
    /\ \E i \in LongItems : i < Get(Get(cachedVideos).heroVideo).videoId

Range(s) == {s[i] : i \in 1..Len(s)}

\* C10: before truncation every fetched video is in exactly one of the two
\* classes, short when its duration is at most 60 seconds and long when it
\* is more; the returned longVideos are all longer than 60 seconds and the
\* returned shorts all at most 60.
C10_ClassificationPartitions ==
    /\ pipe.stage \in {"filtered", "returned", "stored"} =>
          /\ Len(pipe.longVideos) + Len(pipe.shorts) = Len(pipe.videos)
          /\ \A i \in 1..Len(pipe.videos) :
                LET v == pipe.videos[i] IN
                IF v.durationInSeconds <= 60
                THEN v \in Range(pipe.shorts) /\ v \notin Range(pipe.longVideos)
                ELSE v \in Range(pipe.longVideos) /\ v \notin Range(pipe.shorts)
    /\ pipe.stage \in {"returned", "stored"} =>
          /\ \A v \in Range(Get(pipe.result).longVideos) : v.durationInSeconds > 60
          /\ \A v \in Range(Get(pipe.result).shorts) : v.durationInSeconds <= 60

\* C10 witness: a video of exactly 60 seconds is returned among the shorts
\* and one of 61 seconds among the long videos.
C10_BoundaryClassified ==
    /\ pipe.stage = "returned"
    /\ \E v \in Range(Get(pipe.result).shorts) : v.durationInSeconds = 60
    /\ \E v \in Range(Get(pipe.result).longVideos) : v.durationInSeconds = 61

\* The items of the batch that parse to at most ShortMaxSeconds.
ShortItems == {i \in 1..Len(pipe.items) : parseDuration(pipe.items[i].duration) <= ShortMaxSeconds}

\* Item i of the batch comes before item j: published later, or at the same
\* instant and returned earlier by the remote.
Before(i, j) ==
    \/ pipe.items[i].publishedAt > pipe.items[j].publishedAt
    \/ pipe.items[i].publishedAt = pipe.items[j].publishedAt /\ i < j

\* list is the first min(ListLimit, n) of the n items of class, latest first.
FirstOfClass(list, class) ==
    /\ Len(list) = IF Cardinality(class) < ListLimit THEN Cardinality(class) ELSE ListLimit
    /\ \A k \in 1..Len(list) :
          /\ list[k].videoId \in class
          /\ list[k] = toVideo(pipe.items[list[k].videoId])
    /\ \A k, l \in 1..Len(list) : k < l => Before(list[k].videoId, list[l].videoId)
    /\ \A i \in class :
          (\A k \in 1..Len(list) : list[k].videoId # i)
              => \A k \in 1..Len(list) : Before(list[k].videoId, i)

\* C11: the returned longVideos and shorts each hold at most 3 videos, the
\* first min(3, n) of their class ordered by publication instant descending:
\* a later video precedes an earlier one, a dropped video comes after every
\* returned one, and videos of equal instant keep the order of the batch.
C11_TruncatedLatestFirst ==
    pipe.stage \in {"returned", "stored"} =>
        /\ Len(Get(pipe.result).longVideos) <= 3
        /\ Len(Get(pipe.result).shorts) <= 3
        /\ FirstOfClass(Get(pipe.result).longVideos, LongItems)
        /\ FirstOfClass(Get(pipe.result).shorts, ShortItems)

\* C11 witness: four long videos are returned by the remote, the one
\* dropped has the publication instant of one that is kept, and a kept one
\* was returned after an earlier-published one.
C11_TieDroppedByTruncation ==
    /\ pipe.stage = "returned"
    /\ Cardinality(LongItems) = 4
    /\ \E i \in LongItems :
          /\ \A k \in 1..3 : Get(pipe.result).longVideos[k].videoId # i
          /\ pipe.items[i].publishedAt = Get(pipe.result).longVideos[3].publishedAt
    /\ \E i, j \in LongItems :
          /\ i < j /\ pipe.items[i].publishedAt < pipe.items[j].publishedAt
          /\ \E k \in 1..3 : Get(pipe.result).longVideos[k].videoId = j

\* The handle without its first character when that is "@".
stripLeadingAt(h) == IF h # <<>> /\ Head(h) = "@" THEN Tail(h) ELSE h

\* The key as claimed: one leading "@" stripped, the remainder uppercased.
LeadingAtKey(h) ==
    LET r == stripLeadingAt(h) IN [i \in 1..Len(r) |-> toUpperCase(r[i])]

\* C12 (as claimed): the cache key a resolution looks up and stores under is
\* its handle with a single leading "@" stripped and the rest uppercased,
\* an "@" elsewhere being kept.
C12_KeyStripsLeadingAt ==
    (ev.op = "resolve" /\ IsSome(ev.handle))
        => Get(ev.key) = LeadingAtKey(Get(ev.handle))

\* The count of an optional component, zero when it is missing.
CountOf(o) == IF IsSome(o) THEN Get(o) ELSE 0

\* C13: for every text of the form PT[nH][nM][nS] parseDuration returns
\* hours*3600 + minutes*60 + seconds, a missing component counting as zero;
\* for the empty text and every text the pattern is not found in (no "PT"
\* in it) it returns 0; for every text it returns a number, never raising.
C13_ParseDurationValue ==
    parse.stage = "parsed" =>
        /\ IsSome(parse.seconds) /\ Get(parse.seconds) \in Nat
        /\ IsSome(parse.form) =>
              LET f == Get(parse.form) IN
              Get(parse.seconds) = CountOf(f[1]) * 3600 + CountOf(f[2]) * 60 + CountOf(f[3])
        /\ (\A i \in 1..(Len(parse.text) - 1) :
                ~(parse.text[i] = "P" /\ parse.text[i + 1] = "T"))
              => Get(parse.seconds) = 0

\* C13 witness: PT4M13S has been parsed to 253.
C13_ParsedPT4M13S ==
    /\ parse.stage = "parsed"
    /\ parse.text = <<"P", "T", "4", "M", "1", "3", "S">>
    /\ parse.seconds = Some(253)

\* C14 (as claimed): a failure that reaches the handler from the core is
\* answered with status 500, and status 400 is answered only by the
\* handler's own configuration checks, before the core is called.
C14_CoreFailureIs500 ==
    /\ (ev.op = "request" /\ ev.then = "threw") => ev.status = 500
    /\ (ev.op = "request" /\ ev.status = 400) => ev.then = "rejected"

\* C15: when the channel search returns no items the resolution fails with
\* the not-found error and leaves the channel-identifier cache as it was;
\* a resolution that finds no entry for its normalized handle, whatever
\* failed before, issues a remote search.
C15_NotFoundNotCached ==
    /\ (ev.kind = "response" /\ ev.op = "resolve" /\ ev.outcome = "noItems") =>
          /\ ev.then = "threw" /\ ev.err = NotFound
          /\ ~IsSome(ev.id)
          /\ channelIdCache = ev.ids
    /\ (ev.kind = "call" /\ ev.op = "resolve") =>
          IF Get(ev.key) \in DOMAIN ev.ids
          THEN ev.then = "returned"
          ELSE ev.then = "fetching" /\ ev.next = "search" /\ InFlight(ev.p)
    /\ \A k \in NormKeys :
          (resolverLog[k].notFound = resolverLog[k].resolved) => k \notin DOMAIN channelIdCache

\* C15 witness: the second resolution of a normalized handle issues its own
\* search after the first one's search returned no items.
C15_SearchAgainAfterNotFound ==
    /\ ev.kind = "call" /\ ev.op = "resolve" /\ ev.then = "fetching"
    /\ resolverLog[Get(ev.key)].resolved = 2
    /\ resolverLog[Get(ev.key)].issued = 2
    /\ resolverLog[Get(ev.key)].notFound = 1
    /\ ~resolverLog[Get(ev.key)].overlapped

\* C16: startYouTubeAutoRefresh makes one warm-up call of
\* fetchYouTubeVideosAuto, the first invocation of all, and has the timer
\* set with its first tick CACHE_TTL away whatever becomes of that call; a
\* failure of the warm-up is logged, not thrown on, and leaves the timer
\* set; every tick calls the Video Fetcher whether the slot is fresh or not,
\* and when its fetch returns, the result is in the slot with lastFetchTime
\* the instant of the store.
C16_WarmUpThenUnconditionalTicks ==
    /\ ev.op = "warmup" => ev.n <= 1 /\ IsSome(timer)
    /\ (ev.kind = "call" /\ ev.op = "warmup") =>
          /\ Get(timer) = [due |-> now + CACHE_TTL, fired |-> 0]
          /\ seq = 1
          /\ ev.then \in {"fetching", "logged"}
    /\ (ev.op = "warmup" /\ ev.err # <<>>) =>
          /\ ev.then = "logged" /\ ev.status = 0
          /\ Slot = ev.pre
    /\ (ev.kind = "call" /\ ev.op = "tick") =>
          /\ ev.n = seq
          /\ \/ ev.then = "fetching" /\ InFlight(ev.p)
             \/ ev.then = "logged" /\ ~IsSome(env.channelHandle)
    /\ (ev.kind = "response" /\ ev.op = "tick" /\ ev.err = <<>> /\ ev.next = "idle") =>
          /\ ev.then = "stored"
          /\ cachedVideos = ev.value /\ IsSome(ev.value)
          /\ lastFetchTime = now

\* C16 witness: a tick starts a fetch although the slot is fresh.
C16_TickFetchesWhileFresh ==
    /\ ev.kind = "call" /\ ev.op = "tick" /\ ev.then = "fetching"
    /\ ev.hit

\* C17: the slot is never cleared and changes only by the store of a fetch
\* that returned: in every step a stored value stays stored; when the value
\* or lastFetchTime changes, the step is the return of a fetch made for
\* fetchYouTubeVideosAuto, the warm-up or a tick, and the slot then holds
\* that fetch's result and the instant of the step; a step that reads the
\* slot (a call, hit or miss), a failed fetch, a failed tick and the passing
\* of time leave both as they were.
C17_SlotChangesOnlyByStore ==
    [][/\ IsSome(cachedVideos) => IsSome(cachedVideos')
       /\ (cachedVideos' # cachedVideos \/ lastFetchTime' # lastFetchTime) =>
             /\ ev'.kind = "response"
             /\ ev'.op \in {"auto", "warmup", "tick"}
             /\ ev'.then \in {"returned", "stored"}
             /\ ev'.err = <<>>
             /\ cachedVideos' = ev'.value /\ IsSome(ev'.value)
             /\ lastFetchTime' = now
       /\ (ev'.kind \in {"call", "advance"} \/ ev'.err # <<>>) =>
             UNCHANGED <<cachedVideos, lastFetchTime>>]_vars

\* C17 witness: a fetch has just failed while the slot holds a value that
\* has expired, and the value is still there.
C17_ExpiredValueKeptOnFailure ==
    /\ ev.kind = "response" /\ ev.err # <<>>
    /\ IsSome(cachedVideos)
    /\ now - lastFetchTime > CACHE_TTL
    /\ getCachedVideos = None

\* The calls of fetchYouTubeVideosAuto whose fetch is pending.
PendingAuto == {p \in AutoProcs \cup WarmProcs : InFlight(p)}

\* C18: a call of fetchYouTubeVideosAuto that finds the slot empty or
\* expired starts a fetch of its own, however many fetches are pending, and
\* returns nothing before it: the pending calls are separate invocations,
\* and a call returns either at once from a fresh slot or when its own
\* fetch has answered its last remote call.
C18_EveryMissFetches ==
    LET fresh == IsSome(ev.pre.cachedVideos)
                 /\ now - ev.pre.lastFetchTime <= CACHE_TTL
    IN  /\ (ev.kind = "call" /\ ev.op \in {"auto", "warmup"} /\ ~fresh) =>
              /\ ev.then = "fetching"
              /\ ~IsSome(ev.value)
              /\ ev.p \in PendingAuto
              /\ calls[ev.p].n = seq
        /\ \A p, q \in PendingAuto : p # q => calls[p].n # calls[q].n
        /\ (ev.op \in {"auto", "warmup"} /\ IsSome(ev.value)) =>
              \/ ev.kind = "call" /\ fresh
              \/ ev.kind = "response" /\ ev.stage = "videos" /\ ev.n > 0

\* C18 witness: a call finds the slot stale while another call's fetch is
\* pending and nothing has been stored since that one started; both
\* fetches are now pending.
C18_TwoMissesTwoFetches ==
    /\ ev.kind = "call" /\ ev.op = "auto" /\ ev.then = "fetching"
    /\ Cardinality(PendingAuto) >= 2
    /\ \A p \in PendingAuto : storedBy.n < calls[p].n

\* The configured input begins with the characters U, C.
InputIsChannelId ==
    LET h == Get(env.channelHandle) IN Len(h) >= 2 /\ SubSeq(h, 1, 2) = <<"U", "C">>

\* C19: an input of the Video Fetcher that starts with "UC" is the channel
\* identifier: the invocation begins with the channel lookup, no search is
\* ever in flight and the channel-identifier cache stays as it was; with
\* any other input the invocation begins in the resolver, with the search
\* or with the identifier cached for the normalized handle, and the channel
\* lookup is made only once the resolver has an entry for it.
C19_ChannelIdUsedDirectly ==
    IF InputIsChannelId
    THEN /\ (ev.kind = "call" /\ ev.then = "fetching") => ev.next = "channel"
         /\ \A p \in Procs : calls[p].pc # "search"
         /\ channelIdCache = ev.ids
         /\ DOMAIN channelIdCache = {}
    ELSE /\ (ev.kind = "call" /\ ev.then = "fetching") =>
               IF normalize(Get(env.channelHandle)) \in DOMAIN ev.ids
               THEN ev.next = "channel"
               ELSE ev.next = "search" /\ calls[ev.p].pc = "search"
         /\ \A p \in Procs :
               calls[p].pc \in {"channel", "playlist", "videos"}
                   => normalize(Get(env.channelHandle)) \in DOMAIN channelIdCache

\* C19 witness: with an input starting with "UC" the channel lookup has
\* been answered and the playlist listing is in flight.
C19_ChannelLookupWithoutSearch ==
    /\ InputIsChannelId
    /\ ev.kind = "response" /\ ev.stage = "channel" /\ ev.next = "playlist"

\* C20: the value and lastFetchTime are written together: the slot is empty
\* exactly while lastFetchTime is its initial 0, and otherwise lastFetchTime
\* is the instant at which the fetch whose value the slot holds stored it;
\* a call of fetchYouTubeVideosAuto answered from the cache returns the
\* value of the slot, stored at most CACHE_TTL before.
C20_ValueAndStampTogether ==
    /\ ~IsSome(cachedVideos) <=> lastFetchTime = 0
    /\ IsSome(cachedVideos) => lastFetchTime = storedBy.at /\ storedBy.n > 0
    /\ (ev.kind = "call" /\ ev.op \in {"auto", "warmup"} /\ ev.then = "returned") =>
          /\ IsSome(ev.value)
          /\ ev.value = cachedVideos
          /\ now - storedBy.at <= CACHE_TTL
          /\ storedBy.at <= now

\* C20 witness: a call is answered from the cache with a value that an
\* invocation later than the warm-up stored some time before.
C20_HitOnOverwrittenSlot ==
    /\ ev.kind = "call" /\ ev.op = "auto" /\ ev.then = "returned"
    /\ storedBy.n >= 2
    /\ storedBy.at < now

====
